---- MODULE Spec2Model ----
(***************************************************************************)
(* Model of tavern/testutils/pytesthook/util.py: the option registration   *)
(* (add_parser_options), the memoised global configuration loader          *)
(* (load_global_cfg, wrapped in functools.lru_cache) and the option        *)
(* resolver (get_option_generic).                                          *)
(*                                                                         *)
(* Python values are tagged records so that None, lists, strings and       *)
(* booleans can be told apart and compared:                                *)
(*   None, List(<<..>>), Str(".."), Bool(b).                               *)
(* Option names are token sequences, so that str.replace("-", "_") and     *)
(* str.format are computed rather than assumed.                            *)
(***************************************************************************)
EXTENDS Integers, Sequences, FiniteSets, TLC

\* ---------------------------------------------------------------- bounds
\* capacity of the lru_cache (functools' default is 128; scaled down so
\* that eviction happens with a few handles)
maxsize == 2
\* a handle's body is executed at most MaxLoads times in a behaviour
MaxLoads == 2
\* longest list of configuration file paths in one option source
MaxPaths == 2
\* longest list of strict entries in one option source
MaxStrict == 2

\* ---------------------------------------------------------------- values
None == [t |-> "none"]
List(s) == [t |-> "list", l |-> s]
Str(s) == [t |-> "str", s |-> s]
Bool(b) == [t |-> "bool", b |-> b]

\* Python truth value of a value: None, [], "" and False are falsy
Truthy(v) ==
  CASE v.t = "none" -> FALSE
    [] v.t = "list" -> Len(v.l) > 0
    [] v.t = "str"  -> v.s # ""
    [] v.t = "bool" -> v.b

\* `a or b`
Or(a, b) == IF Truthy(a) THEN a ELSE b

\* isinstance(v, list)
IsList(v) == v.t = "list"

\* list + list
Concat(a, b) == List(a.l \o b.l)

SeqsUpTo(S, n) == UNION {[1..k -> S] : k \in 0..n}

\* ---------------------------------------------------------------- names
\* str.replace(old, new) on a tokenised name
Replace(flag, old, new) ==
  [i \in DOMAIN flag |-> IF flag[i] = old THEN new ELSE flag[i]]

\* "tavern-{}-backend".format(b) and "tavern_{}_backend".format(b)
IniBackendName(b) == <<"tavern", "-", b, "-", "backend">>
CliBackendName(b) == <<"tavern", "_", b, "_", "backend">>

IniGlobalCfgName == <<"tavern", "-", "global", "-", "cfg">>
CliGlobalCfgName == <<"tavern", "_", "global", "_", "cfg">>

StrictFlag == <<"tavern", "-", "strict">>
TracebackFlag == <<"tavern", "-", "beta", "-", "new", "-", "traceback">>
Flags == {StrictFlag, TracebackFlag}

backends == <<"http", "mqtt">>
valid_keys == <<"body", "headers", "redirect_query_params">>

\* ------------------------------------------------- add_parser_options
\* the registered command line options: default and choices
add_parser_options(with_defaults) ==
  [ tavern_global_cfg  |-> [default |-> None, choices |-> {}],
    tavern_http_backend |-> [default |-> IF with_defaults THEN Str("requests") ELSE None,
                             choices |-> {}],
    tavern_mqtt_backend |-> [default |-> IF with_defaults THEN Str("paho-mqtt") ELSE None,
                             choices |-> {}],
    tavern_strict |-> [default |-> None,
                       choices |-> {"body", "headers", "redirect_query_params"}],
    tavern_beta_new_traceback |-> [default |-> Bool(FALSE), choices |-> {}] ]

\* ------------------------------------------------- the settings handle
\* pytest_config.getini(name) / pytest_config.getoption(name): what the
\* handle's two stores report under the name they are asked for
getini(c, name) == c.ini[name]
getoption(c, name) == c.opt[name]

\* a handle, by the values its stores report under the names the code uses
MkCfg(iniPaths, cliPaths, iniStrict, cliStrict, iniHttp, cliHttp, iniMqtt, cliMqtt, iniTb, cliTb) ==
  [ ini |-> (IniGlobalCfgName :> iniPaths)
            @@ (Replace(StrictFlag, "-", "_") :> iniStrict)
            @@ (Replace(TracebackFlag, "-", "_") :> iniTb)
            @@ (IniBackendName("http") :> iniHttp)
            @@ (IniBackendName("mqtt") :> iniMqtt),
    opt |-> (CliGlobalCfgName :> cliPaths)
            @@ (StrictFlag :> cliStrict)
            @@ (TracebackFlag :> cliTb)
            @@ (CliBackendName("http") :> cliHttp)
            @@ (CliBackendName("mqtt") :> cliMqtt) ]

\* ------------------------------------------------- get_option_generic
\* the resolver with the two stores asked in the other order
get_option_generic_cli_first(c, flag, default) ==
  LET ini_flag == Replace(flag, "-", "_")
      cli_flag == flag
  IN IF getoption(c, cli_flag) # None THEN getoption(c, cli_flag)
     ELSE IF getini(c, ini_flag) # None THEN getini(c, ini_flag)
     ELSE default

get_option_generic(c, flag, default) ==
  LET ini_flag == Replace(flag, "-", "_")
      cli_flag == flag
  IN IF getini(c, ini_flag) # None THEN getini(c, ini_flag)
     ELSE IF getoption(c, cli_flag) # None THEN getoption(c, cli_flag)
     ELSE default

\* ------------------------------------------------- external collaborators
\* exceptions the loader or the formatter may raise
Excs == {"KeyError", "BadSchemaError"}
ConfigError == "InvalidConfigurationException"

\* documents load_global_config may return: a mapping of keys to values
DocKeys == {"variables", "name"}
DocVal(k) ==
  CASE k = "variables" -> Str("{tavern.env_vars.HOME}")
    [] k = "name"      -> Str("common")
Docs == {[k \in K |-> DocVal(k)] : K \in SUBSET DocKeys}

\* outcome of one call of load_global_config(all_paths)
LoaderOutcomes ==
  {[kind |-> "ok", doc |-> d, exc |-> ""] : d \in Docs}
  \cup {[kind |-> "raise", doc |-> <<>>, exc |-> e] : e \in Excs}

\* outcome of one call of format_keys(loaded_variables, tavern_box)
FormatterOutcomes ==
  {[kind |-> "ok", val |-> Str("/home/user"), exc |-> ""]}
  \cup {[kind |-> "raise", val |-> None, exc |-> e] : e \in Excs}

\* d[k] = v on a dict
Put(d, k, v) == [x \in DOMAIN d \cup {k} |-> IF x = k THEN v ELSE d[x]]

\* ------------------------------------------------- load_global_cfg, by step
\* all_paths with the command line list overriding the ini list
AllPathsOverride(c) ==
  LET ini_global_cfg_paths == Or(getini(c, IniGlobalCfgName), List(<<>>))
      cmdline_global_cfg_paths == Or(getoption(c, CliGlobalCfgName), List(<<>>))
  IN IF Truthy(cmdline_global_cfg_paths) THEN cmdline_global_cfg_paths
     ELSE ini_global_cfg_paths

\* the list handed to load_global_config
AllPaths(c) ==
  LET ini_global_cfg_paths == Or(getini(c, IniGlobalCfgName), List(<<>>))
      cmdline_global_cfg_paths == Or(getoption(c, CliGlobalCfgName), List(<<>>))
  IN Concat(ini_global_cfg_paths, cmdline_global_cfg_paths)

\* the substitution step with global_cfg.get("variables", {}) formatted always
SubstituteAlways(global_cfg, fm) ==
  LET loaded_variables == IF "variables" \in DOMAIN global_cfg
                          THEN global_cfg["variables"] ELSE Str("")
  IN IF fm.kind = "raise"
     THEN [ok |-> FALSE, exc |-> fm.exc, cfg |-> global_cfg,
           fmtArgs |-> <<loaded_variables>>]
     ELSE [ok |-> TRUE, exc |-> "", cfg |-> Put(global_cfg, "variables", fm.val),
           fmtArgs |-> <<loaded_variables>>]

\* the substitution step with format_keys called inside the try block, so
\* that its KeyError is taken for a missing "variables" key
SubstituteInTry(global_cfg, fm) ==
  IF "variables" \notin DOMAIN global_cfg
  THEN [ok |-> TRUE, exc |-> "", cfg |-> global_cfg, fmtArgs |-> <<>>]
  ELSE LET loaded_variables == global_cfg["variables"]
       IN IF fm.kind = "raise"
          THEN IF fm.exc = "KeyError"
               THEN [ok |-> TRUE, exc |-> "", cfg |-> global_cfg,
                     fmtArgs |-> <<loaded_variables>>]
               ELSE [ok |-> FALSE, exc |-> fm.exc, cfg |-> global_cfg,
                     fmtArgs |-> <<loaded_variables>>]
          ELSE [ok |-> TRUE, exc |-> "",
                cfg |-> [global_cfg EXCEPT !["variables"] = fm.val],
                fmtArgs |-> <<loaded_variables>>]

\* try: global_cfg["variables"] / except KeyError / else: format_keys
Substitute(global_cfg, fm) ==
  IF "variables" \notin DOMAIN global_cfg
  THEN [ok |-> TRUE, exc |-> "", cfg |-> global_cfg, fmtArgs |-> <<>>]
  ELSE LET loaded_variables == global_cfg["variables"]
       IN IF fm.kind = "raise"
          THEN [ok |-> FALSE, exc |-> fm.exc, cfg |-> global_cfg,
                fmtArgs |-> <<loaded_variables>>]
          ELSE [ok |-> TRUE, exc |-> "",
                cfg |-> [global_cfg EXCEPT !["variables"] = fm.val],
                fmtArgs |-> <<loaded_variables>>]

InValidKeys(i) == \E j \in DOMAIN valid_keys : valid_keys[j] = i

\* the strict check failing only when every entry is invalid
StrictInvalidAll(strict) ==
  /\ IsList(strict)
  /\ Len(strict.l) > 0
  /\ \A n \in DOMAIN strict.l : ~InValidKeys(strict.l[n])

\* the strict check applied to values that are not lists as well
StrictInvalidAnyType(strict) ==
  \/ /\ IsList(strict)
     /\ \E n \in DOMAIN strict.l : ~InValidKeys(strict.l[n])
  \/ /\ strict.t = "str"
     /\ ~InValidKeys(strict.s)
  \/ strict.t = "bool"

\* isinstance(strict, list) and any(i not in valid_keys for i in strict)
StrictInvalid(strict) ==
  /\ IsList(strict)
  /\ \E n \in DOMAIN strict.l : ~InValidKeys(strict.l[n])

\* the backend choice with the ini value taking priority
ResolveBackendIniFirst(c, b) ==
  LET ini_opt == getini(c, IniBackendName(b))
      cli_opt == getoption(c, CliBackendName(b))
  IN IF Truthy(ini_opt) THEN ini_opt ELSE cli_opt

\* in_use for one backend
ResolveBackend(c, b) ==
  LET ini_opt == getini(c, IniBackendName(b))
      cli_opt == getoption(c, CliBackendName(b))
  IN IF Truthy(cli_opt) /\ cli_opt # ini_opt THEN cli_opt ELSE ini_opt

\* global_cfg["backends"] after the loop over backends
ResolveBackends(c) ==
  [b \in {backends[n] : n \in DOMAIN backends} |-> ResolveBackend(c, b)]

\* what one execution of the body did, for the call record
NoRun ==
  [kind |-> "none", exc |-> "", loaded |-> 0, loadArg |-> None,
   ldRaised |-> "", docOk |-> FALSE, doc |-> <<>>, fmtArgs |-> <<>>,
   fmRaised |-> "", subOk |-> FALSE,
   sub |-> <<>>, strictDone |-> FALSE, strict |-> None,
   backendsDone |-> FALSE, settings |-> <<>>]

\* the body of load_global_cfg, given the outcomes ld of load_global_config
\* and fm of format_keys
LoadGlobalCfgBody(c, ld, fm) ==
  LET all_paths == AllPaths(c)
      r1 == [NoRun EXCEPT !.loaded = 1, !.loadArg = all_paths]
  IN IF ld.kind = "raise"
     THEN [r1 EXCEPT !.kind = "raise", !.exc = ld.exc, !.ldRaised = ld.exc]
     ELSE
       LET s == Substitute(ld.doc, fm)
           r2 == [r1 EXCEPT !.docOk = TRUE, !.doc = ld.doc,
                            !.fmtArgs = s.fmtArgs,
                            !.fmRaised = IF s.fmtArgs # <<>> /\ fm.kind = "raise"
                                         THEN fm.exc ELSE ""]
       IN IF ~s.ok
          THEN [r2 EXCEPT !.kind = "raise", !.exc = s.exc]
          ELSE
            LET strict == get_option_generic(c, StrictFlag, List(<<>>))
                r3 == [r2 EXCEPT !.subOk = TRUE, !.sub = s.cfg,
                                 !.strictDone = TRUE, !.strict = strict]
            IN IF StrictInvalid(strict)
               THEN [r3 EXCEPT !.kind = "raise", !.exc = ConfigError]
               ELSE [r3 EXCEPT !.kind = "ret", !.backendsDone = TRUE,
                               !.settings = Put(Put(s.cfg, "strict", strict),
                                                "backends", ResolveBackends(c))]

\* ------------------------------------------------- state
VARIABLES
  cfg,      \* handle -> what its ini and command line stores report
  cache,    \* the lru_cache of load_global_cfg: <<[key, val]>>, oldest first
  env,      \* what load_global_config and format_keys can do in this run
  heap,     \* object id -> the settings dict it holds (reachable objects)
  last,     \* record of the most recent load_global_cfg call
  prev,     \* summary of the load_global_cfg call before it
  loads,    \* handle -> number of load_global_config calls made for it
  fails,    \* handle -> number of load_global_cfg calls that raised
  evicts,   \* handle -> number of times its cache entry was evicted
  changed,  \* handle -> keys the caller changed in an object returned for it
  kept,     \* as changed, emptied when the handle's cache entry is evicted
  optres    \* record of the most recent direct get_option_generic call

vars == <<cfg, env, cache, heap, last, prev, loads, fails, evicts,
          changed, kept, optres>>

Handles == DOMAIN cfg
HandleNames == {"h1", "h2", "h3"}

\* ------------------------------------------------- functools.lru_cache
\* a lookup that never finds the key
CacheHitNever(c, h) == FALSE

CacheHit(c, h) == \E n \in DOMAIN c : c[n].key = h

\* a lookup that ignores the key and takes the newest entry
CacheGetNewest(c, h) == c[Len(c)].val

CacheGet(c, h) == c[CHOOSE n \in DOMAIN c : c[n].key = h].val

\* a hit makes the entry the most recently used
CacheTouch(c, h) ==
  SelectSeq(c, LAMBDA e : e.key # h) \o SelectSeq(c, LAMBDA e : e.key = h)

\* keys dropped when a new entry is stored: the least recently used one,
\* when the cache is full
CacheEvicted(c) == IF Len(c) >= maxsize THEN {Head(c).key} ELSE {}

\* a store that forgets the result
CacheStoreNothing(c, h, v) == c

CacheStore(c, h, v) ==
  (IF Len(c) >= maxsize THEN Tail(c) ELSE c) \o <<[key |-> h, val |-> v]>>

\* objects still referenced: by the cache or by the caller's last result
NoRef == <<>>
Live(c, ref) == {c[n].val : n \in DOMAIN c} \cup ({ref} \ {NoRef})

\* the dict created by the n-th execution of the body for handle h
NewRef(h, n) == <<h, n>>
Restrict(f, S) == [x \in DOMAIN f \cap S |-> f[x]]

NoCall ==
  [kind |-> "none", h |-> "", exc |-> "", ref |-> NoRef, hit |-> FALSE,
   fresh |-> FALSE, run |-> NoRun]

Summary(call) ==
  [kind |-> call.kind, h |-> call.h, ref |-> call.ref,
   loaded |-> call.run.loaded, fresh |-> call.fresh]

\* ------------------------------------------------- actions
\* load_global_cfg(h) found in the cache: the cached object is returned
CallHit(h) ==
  LET ref == CacheGet(cache, h)
  IN /\ cache' = CacheTouch(cache, h)
     /\ last' = [NoCall EXCEPT !.kind = "ret", !.h = h, !.ref = ref,
                               !.hit = TRUE]
     /\ heap' = Restrict(heap, Live(cache', ref))
     /\ UNCHANGED <<loads, fails, evicts, changed, kept>>

\* load_global_cfg(h) not in the cache: the body runs; its result is stored
\* only when it returns
CallMiss(h, ld, fm) ==
  LET r == LoadGlobalCfgBody(cfg[h], ld, fm)
      out == CacheEvicted(cache)
      new == NewRef(h, loads[h] + 1)
  IN /\ loads[h] < MaxLoads
     /\ loads' = [loads EXCEPT ![h] = @ + r.loaded]
     /\ IF r.kind = "ret"
        THEN /\ cache' = CacheStore(cache, h, new)
             /\ heap' = Restrict(heap @@ (new :> r.settings),
                                 Live(cache', new))
             /\ last' = [NoCall EXCEPT !.kind = "ret", !.h = h,
                                       !.ref = new, !.run = r,
                                       !.fresh = (loads[h] = 0)]
             /\ evicts' = [x \in Handles |->
                             IF x \in out THEN evicts[x] + 1 ELSE evicts[x]]
             /\ kept' = [x \in Handles |-> IF x \in out THEN {} ELSE kept[x]]
             /\ UNCHANGED <<fails, changed>>
        ELSE /\ last' = [NoCall EXCEPT !.kind = "raise", !.h = h,
                                       !.exc = r.exc, !.run = r,
                                       !.fresh = (loads[h] = 0)]
             /\ fails' = [fails EXCEPT ![h] = @ + 1]
             /\ heap' = Restrict(heap, Live(cache, NoRef))
             /\ UNCHANGED <<cache, evicts, changed, kept>>

\* one call of the memoised load_global_cfg with handle h
load_global_cfg(h) ==
  /\ IF CacheHit(cache, h)
     THEN CallHit(h)
     ELSE \E ld \in env.ld, fm \in env.fm : CallMiss(h, ld, fm)
  /\ prev' = Summary(last)
  /\ UNCHANGED <<cfg, env, optres>>

\* the values a caller writes over a returned settings object
OverrideStrict == List(<<"headers">>)
OverrideBackend == Str("overridden")
OverrideKeys == {"strict", "http"}

Override(obj, k) ==
  IF k = "strict" THEN [obj EXCEPT !["strict"] = OverrideStrict]
  ELSE [obj EXCEPT !["backends"]["http"] = OverrideBackend]

\* the value of key k ("strict" or a backend) in a settings object
View(obj, k) == IF k = "strict" THEN obj["strict"] ELSE obj["backends"][k]

\* the caller changes a key of the object its last call returned
CallerOverride(k) ==
  /\ last.kind = "ret"
  /\ View(heap[last.ref], k) # (IF k = "strict" THEN OverrideStrict ELSE OverrideBackend)
  /\ heap' = [heap EXCEPT ![last.ref] = Override(@, k)]
  /\ changed' = [changed EXCEPT ![last.h] = @ \cup {k}]
  /\ kept' = [kept EXCEPT ![last.h] = @ \cup {k}]
  /\ UNCHANGED <<cfg, env, cache, last, prev, loads, fails, evicts, optres>>

\* a direct call get_option_generic(h, flag, default)
Defaults == {List(<<>>), Bool(FALSE), Str("dflt")}

GetOption(h, flag, default) ==
  /\ optres' = [called |-> TRUE, h |-> h, flag |-> flag, default |-> default,
                val |-> get_option_generic(cfg[h], flag, default)]
  /\ UNCHANGED <<cfg, env, cache, heap, last, prev, loads, fails, evicts,
                 changed, kept>>

\* ------------------------------------------------- initial states
Paths == {"a.yaml", "b.yaml"}
PathVals == {None} \cup {List(s) : s \in SeqsUpTo(Paths, MaxPaths)}

StrictEntries == {"body", "redirect_query_params", "redirect-query-params", "bogus"}
\* the ini file is free text: any list, a bare string, a boolean, or nothing
StrictIniVals ==
  {None, Str("body"), Str("bogus"), Bool(TRUE), Bool(FALSE)}
  \cup {List(s) : s \in SeqsUpTo(StrictEntries, MaxStrict)}
\* the command line takes one or more of the registered choices, or nothing
StrictCliVals ==
  {add_parser_options(TRUE).tavern_strict.default}
  \cup {List(s) : s \in SeqsUpTo(add_parser_options(TRUE).tavern_strict.choices
                                   \cap StrictEntries, MaxStrict) \ {<<>>}}

IniBackendVals == {None, Str(""), Str("requests"), Str("paho-mqtt"), Str("custom")}
CliBackendVals(name) ==
  {add_parser_options(wd)[name].default : wd \in BOOLEAN}
  \cup {Str(""), Str("custom")}

OptVals == {None, List(<<>>), List(<<"body">>), Bool(FALSE), Bool(TRUE), Str("")}

BaseCfg(iniStrict) ==
  MkCfg(None, None, iniStrict, None, Str("requests"), Str("requests"),
        Str("paho-mqtt"), Str("paho-mqtt"), None, Bool(FALSE))

FullDoc == [k \in DocKeys |-> DocVal(k)]
OkLoad(d) == [kind |-> "ok", doc |-> d, exc |-> ""]
OkFormat == [kind |-> "ok", val |-> Str("/home/user"), exc |-> ""]

\* handles of the cache lifecycle: they differ in their ini strict value
CacheCfgs == {BaseCfg(v) : v \in {List(<<"body">>), List(<<"bogus">>)}}

PathsCfgs ==
  {MkCfg(ip, cp, None, None, Str("requests"), Str("requests"),
         Str("paho-mqtt"), Str("paho-mqtt"), None, Bool(FALSE))
     : ip \in PathVals, cp \in PathVals}
StrictCfgs ==
  {MkCfg(None, None, is, cs, Str("requests"), Str("requests"),
         Str("paho-mqtt"), Str("paho-mqtt"), None, Bool(FALSE))
     : is \in StrictIniVals, cs \in StrictCliVals}
BackendCfgs ==
  {MkCfg(None, None, None, None, ih, ch, im, cm, None, Bool(FALSE))
     : ih \in IniBackendVals, ch \in CliBackendVals("tavern_http_backend"),
       im \in IniBackendVals, cm \in CliBackendVals("tavern_mqtt_backend")}
OptionCfgs ==
  {MkCfg(None, None, is, cs, Str("requests"), Str("requests"),
         Str("paho-mqtt"), Str("paho-mqtt"), it, ct)
     : is \in OptVals, cs \in OptVals, it \in OptVals, ct \in OptVals}

InitWith(hs, cfgs, lds, fms) ==
  /\ cfg \in [hs -> cfgs]
  /\ env = [ld |-> lds, fm |-> fms]
  /\ cache = <<>>
  /\ heap = <<>>
  /\ last = NoCall
  /\ prev = Summary(NoCall)
  /\ loads = [h \in hs |-> 0]
  /\ fails = [h \in hs |-> 0]
  /\ evicts = [h \in hs |-> 0]
  /\ changed = [h \in hs |-> {}]
  /\ kept = [h \in hs |-> {}]
  /\ optres = [called |-> FALSE, h |-> "", flag |-> <<>>, default |-> None,
               val |-> None]

Next ==
  \/ \E h \in Handles : load_global_cfg(h)
  \/ \E k \in OverrideKeys : CallerOverride(k)

\* the cache lifecycle: more handles than the cache holds, a loader that
\* returns a document or fails
Init ==
  InitWith(HandleNames, CacheCfgs,
           {OkLoad(FullDoc), [kind |-> "raise", doc |-> <<>>, exc |-> "BadSchemaError"]},
           {OkFormat})
Spec == Init /\ [][Next]_vars

\* one handle, all path lists
InitPaths ==
  InitWith({"h1"}, PathsCfgs,
           {OkLoad(FullDoc), [kind |-> "raise", doc |-> <<>>, exc |-> "BadSchemaError"]},
           {OkFormat})
SpecPaths == InitPaths /\ [][Next]_vars

\* one handle, all strict values in both stores
InitStrict == InitWith({"h1"}, StrictCfgs, {OkLoad(FullDoc)}, {OkFormat})
SpecStrict == InitStrict /\ [][Next]_vars

\* one handle, all backend values in both stores
InitBackends == InitWith({"h1"}, BackendCfgs, {OkLoad(FullDoc)}, {OkFormat})
SpecBackends == InitBackends /\ [][Next]_vars

\* one handle, every outcome of the loader and of the formatter
InitDoc == InitWith({"h1"}, CacheCfgs \cup {BaseCfg(None)}, LoaderOutcomes, FormatterOutcomes)
SpecDoc == InitDoc /\ [][Next]_vars

\* the option resolver over all store values, flags and defaults
InitOption == InitWith({"h1"}, OptionCfgs, {OkLoad(FullDoc)}, {OkFormat})
NextOption ==
  \E h \in Handles, flag \in Flags, default \in Defaults :
    GetOption(h, flag, default)
SpecOption == InitOption /\ [][NextOption]_vars

\* ------------------------------------------------- properties
\* the values the stores of the handle of the last call report
LastIniPaths == getini(cfg[last.h], IniGlobalCfgName)
LastCliPaths == getoption(cfg[last.h], CliGlobalCfgName)
LastIniStrict == cfg[last.h].ini[<<"tavern", "_", "strict">>]
LastCliStrict == cfg[last.h].opt[<<"tavern", "-", "strict">>]
LastIniBackend(b) == cfg[last.h].ini[<<"tavern", "-", b, "-", "backend">>]
LastCliBackend(b) == cfg[last.h].opt[<<"tavern", "_", b, "_", "backend">>]
ListOf(v) == IF v.t = "list" THEN v.l ELSE <<>>
Entries(v) == {v.l[n] : n \in DOMAIN v.l}

\* C1 as stated: when a handle's first call is directly followed by a
\* second call with the same handle, the two calls make exactly one file
\* load in total and the second returns the object the first returned.
C1_TwoCallsOneLoad ==
  (prev.fresh /\ last.h = prev.h) =>
    /\ prev.loaded + last.run.loaded = 1
    /\ prev.kind = "ret"
    /\ last.kind = "ret"
    /\ last.ref = prev.ref

\* C1 amended: when a handle's first call returns a settings object, a
\* directly following call with the same handle makes no file load (one in
\* total for the handle) and returns the identical object; when the first
\* call raises, nothing is cached and the second call loads again.
C1_TwoCallsOneLoadAfterReturn ==
  /\ (prev.fresh /\ prev.kind = "ret" /\ last.h = prev.h) =>
       /\ prev.loaded = 1
       /\ last.run.loaded = 0
       /\ loads[last.h] = 1
       /\ last.kind = "ret"
       /\ last.ref = prev.ref
  /\ (prev.fresh /\ prev.kind = "raise" /\ last.h = prev.h) =>
       /\ last.run.loaded = 1
       /\ loads[last.h] = 2

C1_Witness ==
  /\ prev.fresh
  /\ prev.kind = "ret"
  /\ last.h = prev.h
  /\ last.hit
  /\ last.ref = prev.ref

\* C2 as stated: for every handle the number of file loads made for it
\* never exceeds 1.
C2_AtMostOneLoad == \A h \in Handles : loads[h] <= 1

\* C2 amended: for every handle the number of file loads made for it never
\* exceeds 1 plus the number of its calls that raised plus the number of
\* times its entry was evicted from the cache; it equals that sum exactly
\* while the handle is cached, and is one less while it is not.
C2_OneLoadPerCachedEntry ==
  \A h \in Handles :
    /\ loads[h] <= 1 + fails[h] + evicts[h]
    /\ loads[h] = fails[h] + evicts[h]
                  + (IF \E n \in DOMAIN cache : cache[n].key = h THEN 1 ELSE 0)

C2_Witness ==
  /\ last.hit
  /\ loads[last.h] = 1
  /\ \E h \in Handles : loads[h] = 2 /\ evicts[h] = 1 /\ fails[h] = 0
  /\ \E h \in Handles : loads[h] = 2 /\ fails[h] = 1

\* C10 as stated: once the caller has changed a key of an object returned
\* for a handle, every later call with that handle returns the changed
\* value of that key.
C10_ChangeSeenForever ==
  last.kind = "ret" =>
    \A k \in changed[last.h] :
      View(heap[last.ref], k)
        = (IF k = "strict" THEN OverrideStrict ELSE OverrideBackend)

\* C10 amended: the object a call returns is the object the cache holds
\* for the handle, and for as long as the handle's entry has not been
\* evicted since the caller changed a key of it, every call with that
\* handle returns the changed value of that key.
C10_ChangeSeenWhileCached ==
  last.kind = "ret" =>
    /\ \E n \in DOMAIN cache : cache[n].key = last.h /\ cache[n].val = last.ref
    /\ \A k \in kept[last.h] :
         View(heap[last.ref], k)
           = (IF k = "strict" THEN OverrideStrict ELSE OverrideBackend)

C10_Witness ==
  /\ last.hit
  /\ kept[last.h] = {"strict", "http"}
  /\ prev.h # last.h
  /\ heap[last.ref]["strict"] = OverrideStrict
  /\ heap[last.ref]["strict"] # LastIniStrict

C4_StrictListHyphen ==
  (last.run.strictDone /\ IsList(last.run.strict)) =>
    IF Entries(last.run.strict) \subseteq {"body", "headers", "redirect-query-params"}
    THEN last.kind = "ret" /\ last.run.settings["strict"] = last.run.strict
    ELSE last.kind = "raise" /\ last.exc = ConfigError /\ last.ref = NoRef

\* C4 amended: the same with the set the code accepts,
\* {body, headers, redirect_query_params}.
C4_StrictList ==
  (last.run.strictDone /\ IsList(last.run.strict)) =>
    IF Entries(last.run.strict) \subseteq {"body", "headers", "redirect_query_params"}
    THEN /\ last.kind = "ret"
         /\ last.run.settings["strict"] = last.run.strict
         /\ last.ref # NoRef
    ELSE /\ last.kind = "raise"
         /\ last.exc = ConfigError
         /\ last.ref = NoRef
         /\ ~(\E n \in DOMAIN cache : cache[n].key = last.h)

C4_Witness ==
  /\ last.kind = "raise"
  /\ last.exc = ConfigError
  /\ last.run.strict = List(<<"body", "bogus">>)
  /\ LastIniStrict = List(<<"body", "bogus">>)
  /\ LastCliStrict = List(<<"body">>)

\* C9: a resolved strict value that is not a list is not validated: the
\* call returns and the settings carry that value unchanged; with neither
\* store set the settings carry the empty list.
C9_NonListNotValidated ==
  last.run.strictDone =>
    /\ ~IsList(last.run.strict) =>
         /\ last.kind = "ret"
         /\ last.run.settings["strict"] = last.run.strict
    /\ (LastIniStrict # None /\ ~IsList(LastIniStrict)) =>
         /\ last.kind = "ret"
         /\ last.run.settings["strict"] = LastIniStrict
    /\ (LastIniStrict = None /\ LastCliStrict = None) =>
         /\ last.kind = "ret"
         /\ last.run.settings["strict"] = List(<<>>)

C9_Witness ==
  /\ last.kind = "ret"
  /\ ~last.hit
  /\ LastIniStrict = Str("bogus")
  /\ last.run.settings["strict"] = Str("bogus")

\* C5 as stated: each backend is the ini value unless the command line
\* value is present (not None) and differs from it, then it is the command
\* line value, an empty string included.
C5_BackendCliPresentWins ==
  last.run.backendsDone =>
    \A b \in {"http", "mqtt"} :
      last.run.settings["backends"][b]
        = (IF LastCliBackend(b) # None /\ LastCliBackend(b) # LastIniBackend(b)
           THEN LastCliBackend(b) ELSE LastIniBackend(b))

\* C5 amended: each backend, independently, is the ini value unless the
\* command line value is present, not the empty string, and differs from
\* it, then it is the command line value.
C5_BackendCliNonEmptyWins ==
  last.run.backendsDone =>
    \A b \in {"http", "mqtt"} :
      last.run.settings["backends"][b]
        = (IF LastCliBackend(b) \notin {None, Str("")}
              /\ LastCliBackend(b) # LastIniBackend(b)
           THEN LastCliBackend(b) ELSE LastIniBackend(b))

C5_Witness ==
  /\ last.kind = "ret"
  /\ LastIniBackend("http") = Str("custom")
  /\ LastCliBackend("http") = Str("requests")
  /\ last.run.settings["backends"]["http"] = Str("requests")
  /\ LastIniBackend("mqtt") = Str("paho-mqtt")
  /\ LastCliBackend("mqtt") = None
  /\ last.run.settings["backends"]["mqtt"] = Str("paho-mqtt")

\* C6: the list handed to the file loader is the ini path list followed by
\* the command line path list, entry by entry; None or an empty list on a
\* side contributes nothing.
C6_PathsAppended ==
  last.run.loaded = 1 =>
    LET ip == ListOf(LastIniPaths)
        cp == ListOf(LastCliPaths)
        arg == last.run.loadArg
    IN /\ arg.t = "list"
       /\ Len(arg.l) = Len(ip) + Len(cp)
       /\ \A n \in 1..Len(ip) : arg.l[n] = ip[n]
       /\ \A n \in 1..Len(cp) : arg.l[Len(ip) + n] = cp[n]

C6_Witness ==
  /\ last.run.loaded = 1
  /\ LastIniPaths = List(<<"a.yaml", "b.yaml">>)
  /\ LastCliPaths = List(<<"b.yaml", "a.yaml">>)
  /\ last.run.loadArg = List(<<"a.yaml", "b.yaml", "b.yaml", "a.yaml">>)

\* C7 as stated: a loaded document without "variables" makes the call
\* return, with no formatter call and no "variables" key; with "variables"
\* the formatter is called once on that value, its result replaces the
\* entry and the other keys are as loaded.
C7_NoVariablesReturns ==
  last.run.docOk =>
    IF "variables" \notin DOMAIN last.run.doc
    THEN /\ last.kind = "ret"
         /\ last.run.fmtArgs = <<>>
         /\ "variables" \notin DOMAIN last.run.settings
    ELSE /\ last.run.fmtArgs = <<last.run.doc["variables"]>>
         /\ last.run.subOk =>
              /\ DOMAIN last.run.sub = DOMAIN last.run.doc
              /\ last.run.sub["variables"]
                   \in {o.val : o \in {x \in env.fm : x.kind = "ok"}}
              /\ \A k \in DOMAIN last.run.doc \ {"variables"} :
                   last.run.sub[k] = last.run.doc[k]

\* C7 amended: a loaded document without "variables" passes the
\* substitution step unchanged, with no formatter call and no "variables"
\* key, and the call returns unless the strict check then raises the
\* configuration error; with "variables" as stated.
C7_NoVariablesNoSubstitution ==
  last.run.docOk =>
    IF "variables" \notin DOMAIN last.run.doc
    THEN /\ last.run.subOk
         /\ last.run.sub = last.run.doc
         /\ last.run.fmtArgs = <<>>
         /\ last.kind = "raise" => last.exc = ConfigError
         /\ last.kind = "ret" => "variables" \notin DOMAIN last.run.settings
    ELSE /\ last.run.fmtArgs = <<last.run.doc["variables"]>>
         /\ last.run.subOk =>
              /\ DOMAIN last.run.sub = DOMAIN last.run.doc
              /\ last.run.sub["variables"]
                   \in {o.val : o \in {x \in env.fm : x.kind = "ok"}}
              /\ \A k \in DOMAIN last.run.doc \ {"variables"} :
                   last.run.sub[k] = last.run.doc[k]

C7_Witness ==
  /\ last.kind = "ret"
  /\ last.run.docOk
  /\ DOMAIN last.run.doc = {"name"}
  /\ last.run.fmtArgs = <<>>
  /\ DOMAIN last.run.settings = {"name", "strict", "backends"}

\* C8: an exception raised by the file loader or by the formatter is the
\* exception the call raises; nothing is returned or cached and neither
\* strict nor the backends are resolved.
C8_FailuresPropagate ==
  \A e \in Excs :
    (last.run.ldRaised = e \/ last.run.fmRaised = e) =>
      /\ last.kind = "raise"
      /\ last.exc = e
      /\ last.ref = NoRef
      /\ ~last.run.strictDone
      /\ ~last.run.backendsDone
      /\ ~(\E n \in DOMAIN cache : cache[n].key = last.h)

C8_Witness ==
  /\ last.kind = "raise"
  /\ last.run.fmRaised = "KeyError"
  /\ last.exc = "KeyError"
  /\ last.run.docOk
  /\ ~last.run.strictDone

====
